---- MODULE Spec2Model ----
(***************************************************************************)
(* Flat-outline editor: the JSON <-> flat-row transform of src/utils.ts.   *)
(*                                                                         *)
(* JSON values are tagged records [t, v]:                                  *)
(*   string  [t |-> "str",  v |-> "x"]     number [t |-> "num", v |-> 1]   *)
(*   boolean [t |-> "bool", v |-> TRUE]    null   [t |-> "null", v |-> 0]  *)
(*   object  [t |-> "obj",  v |-> << [k |-> key, v |-> value], ... >>]     *)
(*           (own properties in enumeration order, keys distinct)          *)
(*   array   [t |-> "arr",  v |-> << value, ... >>]                        *)
(* Property names are ordinary (non-index, non-"__proto__") strings, so    *)
(* enumeration order is insertion order.                                   *)
(*                                                                         *)
(* The App of src/App.tsx holds the loaded documents; its handlers and the *)
(* row edits of the editor components are the actions of SpecApp and       *)
(* SpecEdit.  Row and document ids are random draws, written as numbers    *)
(* up to renaming (0 is the null activeDocId); a row's isMatch is a        *)
(* boolean once checkMatch has run on it.  Strings are TLA+ strings.       *)
(***************************************************************************)
EXTENDS Integers, Sequences, FiniteSets, TLC

VARIABLES json, nodes, pc, i, stack, heap, attached, result,
          documents, activeDocId, compareDocIds, uploads, alerts, events,
          call, collapsedIds

\* The locals of one flattenJson / nestJson run.
transformVars == <<json, nodes, pc, i, stack, heap, attached, result>>

\* The state of the App component, its handleUpload calls in flight and the
\* alerts it has shown.
appVars == <<documents, activeDocId, compareDocIds, uploads, alerts, events>>

vars == <<transformVars, appVars, call, collapsedIds>>

\* ------------------------------------------------------------------ bounds

\* Largest number of rows a generated JSON input flattens to.
MaxNodes == 3

\* Longest row sequence handed directly to nestJson.
MaxRows == 3

\* Largest depth of a row handed directly to nestJson.
MaxRowDepth == 2

\* Longest string handed to checkMatch, as a value or as a source text.
MaxStrLen == 3

\* ------------------------------------------------------------- JSON values

Str(s) == [t |-> "str", v |-> s]

Num(n) == [t |-> "num", v |-> n]

Bool(b) == [t |-> "bool", v |-> b]

Null == [t |-> "null", v |-> 0]

Obj(entries) == [t |-> "obj", v |-> entries]

Arr(elems) == [t |-> "arr", v |-> elems]

Entry(key, value) == [k |-> key, v |-> value]

\* Reference to a heap object (only inside nestJson's working heap).
Ref(addr) == [t |-> "ref", v |-> addr]

\* No JSON document was loaded (the rows were produced by editing).
NoJson == [t |-> "none", v |-> 0]

\* The empty-marker: the value '' flattenJson gives a container row.
EmptyMarker == Str("")

Keys == {"a", "b"}

Scalars == {Str(""), Str("x"), Num(1), Bool(TRUE), Null}

\* JS: typeof x === 'object' (true of objects, arrays and null).
TypeofObject(x) == x.t \in {"obj", "arr", "null"}

\* JS: Array.isArray(x).
IsArray(x) == x.t = "arr"

RECURSIVE ValuesOfSize(_)
RECURSIVE ArrContents(_)
RECURSIVE ObjContents(_, _)

\* The JSON values that occupy exactly n rows when stored under a key.
ValuesOfSize(n) ==
    IF n = 1
    THEN Scalars \cup {Obj(<<>>), Arr(<<>>)}
    ELSE {Arr(c) : c \in ArrContents(n - 1)}
         \cup {Obj(c) : c \in ObjContents(n - 1, {})}

\* The element sequences that flatten to exactly n rows.
ArrContents(n) ==
    IF n = 0
    THEN {<<>>}
    ELSE UNION {LET vals == ValuesOfSize(s)
                    rests == ArrContents(n - s)
                IN  {<<val>> \o rest : val \in vals, rest \in rests} :
                s \in 1..n}

\* The property lists (distinct keys not in used) that flatten to n rows.
ObjContents(n, used) ==
    IF n = 0
    THEN {<<>>}
    ELSE UNION {LET vals == ValuesOfSize(sk[1])
                    rests == ObjContents(n - sk[1], used \cup {sk[2]})
                IN  {<<Entry(sk[2], val)>> \o rest : val \in vals, rest \in rests} :
                sk \in (1..n) \X (Keys \ used)}

\* The document {"a": {"b": "x"}, "c": 1}.
ScenarioDoc ==
    Obj(<<Entry("a", Obj(<<Entry("b", Str("x"))>>)), Entry("c", Num(1))>>)

\* x is an input handed to flattenJson (what JSON.parse can return): a
\* scalar, or an array or object that flattens to at most MaxNodes rows.
IsJsonInput(x) ==
    \/ x \in Scalars
    \/ x = ScenarioDoc
    \/ \E n \in 0..MaxNodes : x \in {Arr(c) : c \in ArrContents(n)}
    \/ \E n \in 0..MaxNodes : x \in {Obj(c) : c \in ObjContents(n, {})}

\* --------------------------------------------------------------- flat rows

\* Faulty variant: the row's key carries the id drawn for it.
FlatNode_KeyFromId(id, key, value, depth) ==
    [id |-> id, key |-> key \o ToString(id), value |-> value,
     depth |-> depth, isMatch |-> "unset"]

\* A FlatNode as flattenJson builds it; isMatch is left unset.
FlatNode(id, key, value, depth) ==
    [id |-> id, key |-> key, value |-> value, depth |-> depth,
     isMatch |-> "unset"]

\* generateId draws ids at random, so two draws may collide.  The program
\* only compares ids for equality; a stream of draws is given up to renaming
\* (each draw repeats an earlier id or is the next unused one).
IdStreams(n) ==
    {s \in [1..n -> 1..n] :
        \A j \in 1..n :
            \/ s[j] = 1
            \/ \E m \in 1..(j - 1) : s[m] >= s[j] - 1}

\* The draws of stream rnd that follow the first n.
Drop(rnd, n) == [j \in 1..(Len(rnd) - n) |-> rnd[j + n]]

\* Faulty variant: the key counts elements from 1.
IndexKey_OneBased(index) == "[" \o ToString(index + 1) \o "]"

\* The template literal `[${index}]`.
IndexKey(index) == "[" \o ToString(index) \o "]"

\* Array branch, line 16: the test that makes an element a grouping row.
ItemIsContainer(item) == TypeofObject(item)

\* Faulty variant: the null test of line 38 is left out.
ValueIsContainer_NoNullCheck(value) == TypeofObject(value)

\* Faulty variant: arrays are taken for leaf values.
ValueIsContainer_ObjectsOnly(value) == value.t = "obj"

\* Object branch, line 38: the test that makes a property a parent row.
ValueIsContainer(value) == TypeofObject(value) /\ value.t # "null"

\* Faulty variant: the recursion keeps the depth of the container row.
ChildDepth_Same(depth) == depth

\* Faulty variant: the recursion skips a level.
ChildDepth_Skip(depth) == depth + 2

\* The depth flattenJson recurses at (depth + 1).
ChildDepth(depth) == depth + 1

RECURSIVE flattenJson(_, _, _)
RECURSIVE FlattenArray(_, _, _, _, _)
RECURSIVE FlattenObject(_, _, _, _, _)

\* data.forEach((item, index) => ...) from element index on; acc is `nodes`.
\* Every row pushed so far, nested calls included, consumed one draw of rnd.
FlattenArray(data, depth, rnd, index, acc) ==
    IF index >= Len(data.v)
    THEN acc
    ELSE LET item == data.v[index + 1]
             id == rnd[Len(acc) + 1]
         IN  IF ItemIsContainer(item)
             THEN FlattenArray(data, depth, rnd, index + 1,
                      (acc \o <<FlatNode(id, IndexKey(index), EmptyMarker, depth)>>)
                      \o flattenJson(item, ChildDepth(depth), Drop(rnd, Len(acc) + 1)))
             ELSE FlattenArray(data, depth, rnd, index + 1,
                      acc \o <<FlatNode(id, IndexKey(index), item, depth)>>)

\* Faulty variant: a container's rows are put before the rows gathered so far.
FlattenObject_ChildrenFirst(data, depth, rnd, index, acc) ==
    IF index >= Len(data.v)
    THEN acc
    ELSE LET key == data.v[index + 1].k
             value == data.v[index + 1].v
             id == rnd[Len(acc) + 1]
         IN  IF ValueIsContainer(value)
             THEN FlattenObject(data, depth, rnd, index + 1,
                      flattenJson(value, ChildDepth(depth), Drop(rnd, Len(acc) + 1))
                      \o (acc \o <<FlatNode(id, key, EmptyMarker, depth)>>))
             ELSE FlattenObject(data, depth, rnd, index + 1,
                      acc \o <<FlatNode(id, key, value, depth)>>)

\* Object.keys(data).forEach((key) => ...) from property index on.
FlattenObject(data, depth, rnd, index, acc) ==
    IF index >= Len(data.v)
    THEN acc
    ELSE LET key == data.v[index + 1].k
             value == data.v[index + 1].v
             id == rnd[Len(acc) + 1]
         IN  IF ValueIsContainer(value)
             THEN FlattenObject(data, depth, rnd, index + 1,
                      (acc \o <<FlatNode(id, key, EmptyMarker, depth)>>)
                      \o flattenJson(value, ChildDepth(depth), Drop(rnd, Len(acc) + 1)))
             ELSE FlattenObject(data, depth, rnd, index + 1,
                      acc \o <<FlatNode(id, key, value, depth)>>)

\* Faulty variant: a top-level scalar yields one row.
flattenJson_ScalarRow(data, depth, rnd) ==
    IF TypeofObject(data) /\ data.t # "null"
    THEN IF IsArray(data)
         THEN FlattenArray(data, depth, rnd, 0, <<>>)
         ELSE FlattenObject(data, depth, rnd, 0, <<>>)
    ELSE IF depth = 0 THEN <<FlatNode(rnd[1], "", data, depth)>> ELSE <<>>

\* flattenJson, lines 9-60; ids are drawn from rnd.
flattenJson(data, depth, rnd) ==
    IF TypeofObject(data) /\ data.t # "null"
    THEN IF IsArray(data)
         THEN FlattenArray(data, depth, rnd, 0, <<>>)
         ELSE FlattenObject(data, depth, rnd, 0, <<>>)
    ELSE <<>>

\* ------------------------------------------------------------------ nestJson

\* nestJson builds its result by mutating objects it also keeps on a stack.
\* heap[addr] is the object at address addr; a property holding an object
\* holds Ref(addr).  root is the first object allocated.
RootAddr == 1

\* Faulty variant: only strictly deeper entries are popped.
MustPop_Strict(stk, node) ==
    Len(stk) > 1 /\ stk[Len(stk)].depth > node.depth

\* Line 76: the loop test of the while that unwinds the stack.
MustPop(stk, node) ==
    Len(stk) > 1 /\ stk[Len(stk)].depth >= node.depth

\* Faulty variant: a row is a parent only when it also carries the empty-marker.
IsParent_TrustMarker(rows, idx) ==
    /\ idx + 1 < Len(rows)
    /\ rows[idx + 2].depth > rows[idx + 1].depth
    /\ rows[idx + 1].value = EmptyMarker

\* Faulty variant: a row carrying the empty-marker is a parent as well.
IsParent_OrMarker(rows, idx) ==
    \/ idx + 1 < Len(rows) /\ rows[idx + 2].depth > rows[idx + 1].depth
    \/ rows[idx + 1].value = EmptyMarker

\* Lines 83-84: nextNode && nextNode.depth > node.depth (idx is 0-based).
IsParent(rows, idx) ==
    idx + 1 < Len(rows) /\ rows[idx + 2].depth > rows[idx + 1].depth

\* Faulty variant: a property that exists keeps its value.
SetProperty_KeepFirst(entries, key, x) ==
    IF \E j \in 1..Len(entries) : entries[j].k = key
    THEN entries
    ELSE Append(entries, Entry(key, x))

\* parent[key] = x on a plain object: replaces the property's value where it
\* stands, or adds the property last.
SetProperty(entries, key, x) ==
    IF \E j \in 1..Len(entries) : entries[j].k = key
    THEN [j \in 1..Len(entries) |->
             IF entries[j].k = key THEN Entry(key, x) ELSE entries[j]]
    ELSE Append(entries, Entry(key, x))

\* Faulty variant: containers are created as arrays.
NewContainer_Array == Arr(<<>>)

\* Lines 68 and 88: the literal {} root and every new container start as.
NewContainer == Obj(<<>>)

\* Lines 90-94 and 98-103: push onto an array parent, assign to an object one.
AttachTo(parent, key, x) ==
    IF IsArray(parent)
    THEN Arr(Append(parent.v, x))
    ELSE Obj(SetProperty(parent.v, key, x))

RECURSIVE Resolve(_, _)

\* The JSON value the object at addr stands for once every Ref is followed.
Resolve(h, addr) ==
    LET o == h[addr]
        Val(x) == IF x.t = "ref" THEN Resolve(h, x.v) ELSE x
    IN  IF IsArray(o)
        THEN Arr([j \in 1..Len(o.v) |-> Val(o.v[j])])
        ELSE Obj([j \in 1..Len(o.v) |-> Entry(o.v[j].k, Val(o.v[j].v))])

\* ------------------------------------------------------------- checkMatch

\* Characters String.prototype.trim removes that the strings here contain.
WhiteSpace == {" ", "\t", "\n"}

RECURSIVE TrimStart(_)

TrimStart(s) ==
    IF Len(s) > 0 /\ SubSeq(s, 1, 1) \in WhiteSpace
    THEN TrimStart(SubSeq(s, 2, Len(s)))
    ELSE s

RECURSIVE TrimEnd(_)

TrimEnd(s) ==
    IF Len(s) > 0 /\ SubSeq(s, Len(s), Len(s)) \in WhiteSpace
    THEN TrimEnd(SubSeq(s, 1, Len(s) - 1))
    ELSE s

\* Faulty variant: nothing is trimmed.
Trim_Nothing(s) == s

\* Faulty variant: only leading white space is trimmed.
Trim_StartOnly(s) == TrimStart(s)

\* String.prototype.trim.
Trim(s) == TrimEnd(TrimStart(s))

\* Faulty variant: the search string must start the source.
Includes_AtStart(source, search) ==
    Len(search) <= Len(source) /\ SubSeq(source, 1, Len(search)) = search

\* String.prototype.includes: search occurs in source at some offset.
Includes(source, search) ==
    \E k \in 0..(Len(source) - Len(search)) :
        SubSeq(source, k + 1, k + Len(search)) = search

\* !value of JavaScript for the scalar values a row can hold.
Falsy(value) ==
    CASE value.t = "str" -> value.v = ""
      [] value.t = "num" -> value.v = 0
      [] value.t = "bool" -> ~value.v
      [] value.t = "null" -> TRUE
      [] OTHER -> FALSE

\* checkMatch, lines 113-119.
checkMatch(value, source) ==
    IF Falsy(value) \/ value.t # "str"
    THEN TRUE
    ELSE LET normalizedValue == Trim(value.v)
         IN  IF Len(normalizedValue) = 0
             THEN TRUE
             ELSE Includes(source, normalizedValue)

RECURSIVE Repeat(_, _)

\* String.prototype.repeat.
Repeat(str, count) == IF count = 0 THEN "" ELSE str \o Repeat(str, count - 1)

\* Faulty variant: one '#' per level, none for the top level.
getHashTags_NoExtra(depth) == Repeat("#", depth)

\* getHashTags, lines 124-126.
getHashTags(depth) == Repeat("#", depth + 1)

\* ------------------------------------------------------------------ actions

\* handleUpload, line 60: const flatNodes = flattenJson(jsonContent).
Flatten ==
    /\ pc = "flatten"
    /\ \E rnd \in IdStreams(MaxNodes) :
           nodes' = flattenJson(json, 0, rnd)
    /\ pc' = "nest"
    /\ UNCHANGED <<json, i, stack, heap, attached, result>>
    /\ UNCHANGED <<appVars, call, collapsedIds>>

\* Faulty variant: the empty sequence yields null.
NestEmpty_ReturnsNull ==
    /\ pc = "nest"
    /\ Len(nodes) = 0
    /\ result' = Null
    /\ pc' = "done"
    /\ UNCHANGED <<json, nodes, i, stack, heap, attached>>
    /\ UNCHANGED <<appVars, call, collapsedIds>>

\* nestJson, line 66: if (nodes.length === 0) return {}.
NestEmpty ==
    /\ pc = "nest"
    /\ Len(nodes) = 0
    /\ result' = Obj(<<>>)
    /\ pc' = "done"
    /\ UNCHANGED <<json, nodes, i, stack, heap, attached>>
    /\ UNCHANGED <<appVars, call, collapsedIds>>

\* nestJson, lines 68-71: root, the stack with its sentinel entry, i = 0.
NestBegin ==
    /\ pc = "nest"
    /\ Len(nodes) # 0
    /\ heap' = <<NewContainer>>
    /\ stack' = <<[obj |-> RootAddr, depth |-> -1]>>
    /\ i' = 0
    /\ attached' = <<>>
    /\ pc' = "loop"
    /\ UNCHANGED <<json, nodes, result>>
    /\ UNCHANGED <<appVars, call, collapsedIds>>

\* nestJson, lines 76-78: one turn of the while loop, stack.pop().
NestPop ==
    /\ pc = "loop"
    /\ i < Len(nodes)
    /\ MustPop(stack, nodes[i + 1])
    /\ stack' = SubSeq(stack, 1, Len(stack) - 1)
    /\ UNCHANGED <<json, nodes, pc, i, heap, attached, result>>
    /\ UNCHANGED <<appVars, call, collapsedIds>>

\* nestJson, lines 80-104 and the i++ of line 71: row i is attached to the
\* object on top of the stack, as a new container or as a leaf value.
\* attached records, for row i, the parent's address and the address of the
\* container created for the row (0 when the row is a leaf).
NestAttach ==
    /\ pc = "loop"
    /\ i < Len(nodes)
    /\ ~MustPop(stack, nodes[i + 1])
    /\ LET node == nodes[i + 1]
           parentAddr == stack[Len(stack)].obj
           parent == heap[parentAddr]
           newAddr == Len(heap) + 1
       IN  IF IsParent(nodes, i)
           THEN /\ heap' = Append([heap EXCEPT ![parentAddr] =
                                      AttachTo(parent, node.key, Ref(newAddr))],
                                  NewContainer)
                /\ stack' = Append(stack, [obj |-> newAddr, depth |-> node.depth])
                /\ attached' = Append(attached,
                                      [parent |-> parentAddr, made |-> newAddr])
           ELSE /\ heap' = [heap EXCEPT ![parentAddr] =
                               AttachTo(parent, node.key, node.value)]
                /\ stack' = stack
                /\ attached' = Append(attached,
                                      [parent |-> parentAddr, made |-> 0])
    /\ i' = i + 1
    /\ UNCHANGED <<json, nodes, pc, result>>
    /\ UNCHANGED <<appVars, call, collapsedIds>>

\* nestJson, line 107: return root.
NestReturn ==
    /\ pc = "loop"
    /\ i >= Len(nodes)
    /\ result' = Resolve(heap, RootAddr)
    /\ pc' = "done"
    /\ UNCHANGED <<json, nodes, i, stack, heap, attached>>
    /\ UNCHANGED <<appVars, call, collapsedIds>>

Nest == NestEmpty \/ NestBegin \/ NestPop \/ NestAttach \/ NestReturn

\* ----------------------------------------------------------- specifications

\* Values of the nestJson locals before nestJson is entered.
NotStarted ==
    /\ i = 0
    /\ stack = <<>>
    /\ heap = <<>>
    /\ attached = <<>>
    /\ result = NoJson

\* App, lines 12-17: the initial values of the component's state; no
\* handleUpload call is in flight.
NothingLoaded ==
    /\ documents = <<>>
    /\ activeDocId = 0
    /\ compareDocIds = <<>>
    /\ uploads = <<>>
    /\ alerts = <<>>
    /\ events = 0

\* The collapsible TopicTree, line 14: no row is collapsed.
NothingCollapsed == collapsedIds = {}

\* No checkMatch call is being observed.
NoCall ==
    [fn |-> "none", value |-> Null, source |-> "", returned |-> FALSE,
     ret |-> FALSE]

\* A parsed JSON document is flattened and the rows are nested back.
Init ==
    /\ IsJsonInput(json)
    /\ nodes = <<>>
    /\ pc = "flatten"
    /\ NotStarted
    /\ NothingLoaded
    /\ call = NoCall
    /\ NothingCollapsed

\* The row sequences nestJson can be handed after structure, key and value
\* edits: any keys, any scalar values, any depths >= 0.
RowValues == {Str(""), Str("x"), Null}

IsEditedRows(rows) ==
    \E n \in 0..MaxRows :
        /\ rows \in [1..n -> [id : 1..n, key : Keys, value : RowValues,
                              depth : 0..MaxRowDepth, isMatch : {"unset"}]]
        /\ \A j \in 1..n : rows[j].id = j

\* Rows of an edited document are nested (export, preview).
InitNest ==
    /\ json = NoJson
    /\ IsEditedRows(nodes)
    /\ pc = "nest"
    /\ NotStarted
    /\ NothingLoaded
    /\ call = NoCall
    /\ NothingCollapsed

SpecNest == InitNest /\ [][Nest]_vars

Next == Flatten \/ NestEmpty \/ NestBegin \/ NestPop \/ NestAttach \/ NestReturn

Spec == Init /\ [][Next]_vars

\* No flattenJson / nestJson run is being observed.
TransformIdle ==
    /\ json = NoJson
    /\ nodes = <<>>
    /\ pc = "idle"
    /\ NotStarted

Alphabet == {"a", "A", " ", "\n"}

RECURSIVE StringsOfLen(_)

StringsOfLen(n) ==
    IF n = 0 THEN {""}
    ELSE {c \o s : c \in Alphabet, s \in StringsOfLen(n - 1)}

Strings(n) == UNION {StringsOfLen(k) : k \in 0..n}

\* The values a row can hold when checkMatch is called on it: the scalars
\* of a parsed JSON document and the strings typed into the value field.
MatchValues ==
    {Null, Num(0), Num(1), Bool(FALSE), Bool(TRUE)}
        \cup {Str(s) : s \in Strings(MaxStrLen)}

\* checkMatch is called on a value and a source text.
InitMatch ==
    /\ TransformIdle
    /\ NothingLoaded
    /\ call \in [fn : {"checkMatch"}, value : MatchValues,
                 source : Strings(MaxStrLen), returned : {FALSE},
                 ret : {FALSE}]
    /\ NothingCollapsed

\* checkMatch, lines 113-119: the call returns.
CheckMatchCall ==
    /\ call.fn = "checkMatch"
    /\ ~call.returned
    /\ call' = [call EXCEPT !.returned = TRUE,
                            !.ret = checkMatch(call.value, call.source)]
    /\ UNCHANGED <<transformVars, appVars, collapsedIds>>

SpecMatch == InitMatch /\ [][CheckMatchCall]_vars

\* The three functions of utils.ts side by side: a document is flattened
\* and nested back, edited rows are nested, or checkMatch is called.
InitCore == Init \/ InitNest \/ InitMatch

NextCore ==
    \/ Flatten
    \/ NestEmpty
    \/ NestBegin
    \/ NestPop
    \/ NestAttach
    \/ NestReturn
    \/ CheckMatchCall

SpecCore == InitCore /\ [][NextCore]_vars

\* ---------------------------------------------------------------- the App

\* Most user events of one session (uploads, selections, removals, edits,
\* source replacements).
MaxEvents == 3

\* Most files handed to one handleUpload call.
MaxFiles == 2

\* Most handleUpload calls in flight at once.
MaxInFlight == 2

\* Most documents loaded or being read at once.
MaxDocs == 2

\* JSON.parse threw on the file's text.
ParseError == [t |-> "error", v |-> 0]

\* A File: its name, its MIME type, what JSON.parse makes of its text (for
\* the files read as JSON) and its text (for the files read as source).
File(fname, ftype, fparsed, ftext) ==
    [name |-> fname, type |-> ftype, parsed |-> fparsed, text |-> ftext]

\* The files the user can pick: a JSON document, a file that is not valid
\* JSON, the source text of the first, and a JSON file without extension.
FilePool ==
    { File("a.json", "application/json",
           Obj(<<Entry("a", Str("a")), Entry("b", Num(1))>>), ""),
      File("b.json", "application/json", ParseError, ""),
      File("a.txt", "text/plain", Null, "a A"),
      File("notes", "application/json", Arr(<<Str("A")>>), "") }

\* A FileList: distinct files in some order.
FileLists ==
    {fs \in UNION {[1..n -> FilePool] : n \in 1..MaxFiles} :
        \A j, k \in 1..Len(fs) : j # k => fs[j] # fs[k]}

EndsWith(s, suffix) ==
    /\ Len(suffix) <= Len(s)
    /\ SubSeq(s, Len(s) - Len(suffix) + 1, Len(s)) = suffix

StartsWith(s, prefix) ==
    Len(prefix) <= Len(s) /\ SubSeq(s, 1, Len(prefix)) = prefix

\* String.prototype.replace with a string pattern: the first occurrence.
Replace(s, pattern, replacement) ==
    LET hits == {k \in 1..(Len(s) - Len(pattern) + 1) :
                    SubSeq(s, k, k + Len(pattern) - 1) = pattern}
    IN  IF hits = {} THEN s
        ELSE LET k == CHOOSE h \in hits : \A g \in hits : h <= g
             IN  SubSeq(s, 1, k - 1) \o replacement
                     \o SubSeq(s, k + Len(pattern), Len(s))

\* handleUpload, line 32.
IsJsonFile(f) == EndsWith(f.name, ".json") \/ Includes(f.type, "json")

\* handleUpload, line 34.
IsTextFile(f) ==
    /\ ~IsJsonFile(f)
    /\ \/ EndsWith(f.name, ".txt")
       \/ EndsWith(f.name, ".md")
       \/ StartsWith(f.type, "text/")

\* handleUpload, lines 50-58: the source text paired with a JSON file.
TextContent(name, jsonFiles, textFiles) ==
    IF Len(jsonFiles) = 1 /\ Len(textFiles) = 1
    THEN textFiles[1].text
    ELSE LET found == {k \in 1..Len(textFiles) :
                          StartsWith(textFiles[k].name, name)}
         IN  IF found = {} THEN ""
             ELSE textFiles[CHOOSE k \in found : \A m \in found : k <= m].text

\* handleUpload, lines 62-64: every row's isMatch is set.
MatchAll(rows, source) ==
    [j \in 1..Len(rows) |->
        [rows[j] EXCEPT !.isMatch = checkMatch(rows[j].value, source)]]

\* Faulty variant: a file that does not parse yields an empty document.
NewDocs_EmptyOnError(jsonFile, jsonFiles, textFiles, rnd, id) ==
    LET name == Replace(jsonFile.name, ".json", "")
        textContent == TextContent(name, jsonFiles, textFiles)
        jsonContent == IF jsonFile.parsed = ParseError
                       THEN Obj(<<>>) ELSE jsonFile.parsed
    IN  <<[id |-> id, name |-> name, rawJson |-> jsonContent,
           sourceText |-> textContent,
           flatNodes |-> MatchAll(flattenJson(jsonContent, 0, rnd),
                                  textContent)]>>

\* handleUpload, lines 42-77: the documents one JSON file adds to newDocs,
\* none when JSON.parse throws.
NewDocs(jsonFile, jsonFiles, textFiles, rnd, id) ==
    IF jsonFile.parsed = ParseError
    THEN <<>>
    ELSE LET jsonContent == jsonFile.parsed
             name == Replace(jsonFile.name, ".json", "")
             textContent == TextContent(name, jsonFiles, textFiles)
         IN  <<[id |-> id, name |-> name, rawJson |-> jsonContent,
                sourceText |-> textContent,
                flatNodes |-> MatchAll(flattenJson(jsonContent, 0, rnd),
                                       textContent)]>>

Range(f) == {f[k] : k \in DOMAIN f}

DocIds(docs) == {docs[k].id : k \in DOMAIN docs}

\* The document ids the state refers to anywhere.
KnownDocIds ==
    (DocIds(documents) \cup {activeDocId} \cup Range(compareDocIds)
        \cup {uploads[u].activeDocId : u \in DOMAIN uploads})
    \ {0}

\* handleUpload, line 67: Math.random().toString(36).substr(2, 9) is a
\* random draw, which can repeat an id in use or be new; a new id is
\* written as the least number not in use.
DrawnDocIds(known) ==
    known \cup
        {CHOOSE n \in 1..(Cardinality(known) + 1) :
            n \notin known /\ \A m \in 1..(n - 1) : m \in known}

\* The number of ids flattenJson draws for a parsed file.
RowCount(parsed) ==
    IF parsed = ParseError THEN 0
    ELSE Len(flattenJson(parsed, 0, [j \in 1..MaxNodes |-> j]))

RECURSIVE PendingFiles(_)

\* The JSON files of the first n calls in flight.
PendingFiles(n) ==
    IF n = 0 THEN 0 ELSE Len(uploads[n].jsonFiles) + PendingFiles(n - 1)

RECURSIVE ReadFiles(_, _, _, _, _)

\* handleUpload, lines 41-78: the loop over the JSON files from file
\* number k on, for every outcome of the random draws; newDocs so far.
ReadFiles(jsonFiles, textFiles, k, newDocs, known) ==
    IF k > Len(jsonFiles)
    THEN {newDocs}
    ELSE UNION {ReadFiles(jsonFiles, textFiles, k + 1,
                          newDocs \o NewDocs(jsonFiles[k], jsonFiles,
                                             textFiles, rnd, id),
                          known \cup {id}) :
                    rnd \in IdStreams(RowCount(jsonFiles[k].parsed)),
                    id \in DrawnDocIds(known)}

\* handleUpload, lines 27-39: the files are sorted into JSON and text
\* files; the call then waits for the first file's text, holding the
\* activeDocId of the render it was created in.  Without JSON files the
\* call returns at once and changes nothing.
handleUpload_Begin(files) ==
    /\ events < MaxEvents
    /\ Len(uploads) < MaxInFlight
    /\ LET jsonFiles == SelectSeq(files, IsJsonFile)
           textFiles == SelectSeq(files, IsTextFile)
       IN  /\ Len(documents) + PendingFiles(Len(uploads)) + Len(jsonFiles)
                  <= MaxDocs
           /\ uploads' =
                  IF jsonFiles = <<>> THEN uploads
                  ELSE Append(uploads,
                              [activeDocId |-> activeDocId,
                               jsonFiles |-> jsonFiles,
                               textFiles |-> textFiles])
    /\ events' = events + 1
    /\ UNCHANGED <<documents, activeDocId, compareDocIds, alerts>>
    /\ UNCHANGED <<transformVars, call, collapsedIds>>

\* handleUpload, lines 74-77: alert(`Error parsing ${jsonFile.name}`) for
\* each file JSON.parse throws on.
Alerts(jsonFiles) ==
    LET Throws(f) == f.parsed = ParseError
        failed == SelectSeq(jsonFiles, Throws)
    IN  [k \in 1..Len(failed) |-> "Error parsing " \o failed[k].name]

RemoveAt(seq, k) == SubSeq(seq, 1, k - 1) \o SubSeq(seq, k + 1, Len(seq))

\* handleUpload, lines 41-86, once the files' texts have been read: the
\* loop over the JSON files, which changes only the call's own newDocs,
\* and then the new documents are appended; the first becomes active when
\* the call's activeDocId is null.
handleUpload_End(u) ==
    /\ u \in DOMAIN uploads
    /\ \E newDocs \in ReadFiles(uploads[u].jsonFiles, uploads[u].textFiles,
                                1, <<>>, KnownDocIds) :
           IF Len(newDocs) > 0
           THEN /\ documents' = documents \o newDocs
                /\ IF uploads[u].activeDocId = 0
                   THEN /\ activeDocId' = newDocs[1].id
                        /\ compareDocIds' = <<newDocs[1].id>>
                   ELSE UNCHANGED <<activeDocId, compareDocIds>>
           ELSE UNCHANGED <<documents, activeDocId, compareDocIds>>
    /\ alerts' = alerts \o Alerts(uploads[u].jsonFiles)
    /\ uploads' = RemoveAt(uploads, u)
    /\ UNCHANGED events
    /\ UNCHANGED <<transformVars, call, collapsedIds>>

\* Sidebar onSelect, lines 159-161.
onSelect(id) ==
    /\ events < MaxEvents
    /\ id \in DocIds(documents)
    /\ activeDocId' = id
    /\ events' = events + 1
    /\ UNCHANGED <<documents, compareDocIds, uploads, alerts>>
    /\ UNCHANGED <<transformVars, call, collapsedIds>>

\* Sidebar onRemove, lines 162-166.
onRemove(id) ==
    /\ events < MaxEvents
    /\ id \in DocIds(documents)
    /\ LET Other(d) == d.id # id
           OtherId(cid) == cid # id
       IN  /\ documents' = SelectSeq(documents, Other)
           /\ compareDocIds' = SelectSeq(compareDocIds, OtherId)
    /\ activeDocId' = IF activeDocId = id THEN 0 ELSE activeDocId
    /\ events' = events + 1
    /\ UNCHANGED <<uploads, alerts>>
    /\ UNCHANGED <<transformVars, call, collapsedIds>>

\* addToComparison, lines 115-120.
addToComparison(docId) ==
    /\ events < MaxEvents
    /\ compareDocIds' = IF docId \notin Range(compareDocIds)
                        THEN Append(compareDocIds, docId)
                        ELSE compareDocIds
    /\ events' = events + 1
    /\ UNCHANGED <<documents, activeDocId, uploads, alerts>>
    /\ UNCHANGED <<transformVars, call, collapsedIds>>

\* removeFromComparison, lines 122-124.
removeFromComparison(docId) ==
    /\ events < MaxEvents
    /\ LET OtherId(cid) == cid # docId
       IN  compareDocIds' = SelectSeq(compareDocIds, OtherId)
    /\ events' = events + 1
    /\ UNCHANGED <<documents, activeDocId, uploads, alerts>>
    /\ UNCHANGED <<transformVars, call, collapsedIds>>

\* [newIds[a], newIds[b]] = [newIds[b], newIds[a]].
Swap(ids, a, b) == [ids EXCEPT ![a] = ids[b], ![b] = ids[a]]

\* Faulty variant: the neighbour's id is copied over the moved one.
moveTree_Overwrite(index, direction) ==
    /\ events < MaxEvents
    /\ compareDocIds' =
           IF direction = "left" /\ index > 1
           THEN [compareDocIds EXCEPT ![index] = compareDocIds[index - 1]]
           ELSE IF direction = "right" /\ index < Len(compareDocIds)
           THEN [compareDocIds EXCEPT ![index] = compareDocIds[index + 1]]
           ELSE compareDocIds
    /\ events' = events + 1
    /\ UNCHANGED <<documents, activeDocId, uploads, alerts>>
    /\ UNCHANGED <<transformVars, call, collapsedIds>>

\* moveTree, lines 126-136; index counts from 1 here, from 0 in the code.
moveTree(index, direction) ==
    /\ events < MaxEvents
    /\ compareDocIds' =
           IF direction = "left" /\ index > 1
           THEN Swap(compareDocIds, index, index - 1)
           ELSE IF direction = "right" /\ index < Len(compareDocIds)
           THEN Swap(compareDocIds, index, index + 1)
           ELSE compareDocIds
    /\ events' = events + 1
    /\ UNCHANGED <<documents, activeDocId, uploads, alerts>>
    /\ UNCHANGED <<transformVars, call, collapsedIds>>

\* The Compare button, lines 194-201: an empty comparison list is seeded
\* with the active document.
onCompareClick ==
    /\ events < MaxEvents
    /\ compareDocIds' = IF activeDocId # 0 /\ Len(compareDocIds) = 0
                        THEN <<activeDocId>>
                        ELSE compareDocIds
    /\ events' = events + 1
    /\ UNCHANGED <<documents, activeDocId, uploads, alerts>>
    /\ UNCHANGED <<transformVars, call, collapsedIds>>

\* documents.find(d => d.id === id), for an id some document has.
FindDoc(id) ==
    documents[CHOOSE k \in DOMAIN documents :
                  /\ documents[k].id = id
                  /\ \A m \in 1..(k - 1) : documents[m].id # id]

RECURSIVE LeadingHashes(_)

\* The length of the match of /^(#+)/, 0 when there is none.
LeadingHashes(value) ==
    IF Len(value) > 0 /\ SubSeq(value, 1, 1) = "#"
    THEN 1 + LeadingHashes(SubSeq(value, 2, Len(value)))
    ELSE 0

\* Faulty variant: the count of markers is the depth.
StructureDepth_Count(value) == LeadingHashes(value)

\* Faulty variant: no match gives -1.
StructureDepth_NoGuard(value) == LeadingHashes(value) - 1

\* handleRowChange, lines 32-33: match ? match[1].length - 1 : 0.
StructureDepth(value) ==
    LET n == LeadingHashes(value)
    IN  IF n > 0 THEN n - 1 ELSE 0

\* Faulty variant: a value edit keeps the old isMatch.
ChangedRow_StaleMatch(node, value, type, sourceText) ==
    CASE type = "structure" -> [node EXCEPT !.depth = StructureDepth(value)]
      [] type = "key" -> [node EXCEPT !.key = value]
      [] OTHER -> [node EXCEPT !.value = Str(value)]

\* Faulty variant: a value edit stores the trimmed string.
ChangedRow_Trimmed(node, value, type, sourceText) ==
    CASE type = "structure" -> [node EXCEPT !.depth = StructureDepth(value)]
      [] type = "key" -> [node EXCEPT !.key = value]
      [] OTHER -> [node EXCEPT !.value = Str(Trim(value)),
                               !.isMatch = checkMatch(Str(value), sourceText)]

\* Faulty variant: a key edit re-runs the match.
ChangedRow_KeyRematch(node, value, type, sourceText) ==
    CASE type = "structure" -> [node EXCEPT !.depth = StructureDepth(value)]
      [] type = "key" -> [node EXCEPT !.key = value,
                                      !.isMatch = checkMatch(Str(value),
                                                             sourceText)]
      [] OTHER -> [node EXCEPT !.value = Str(value),
                               !.isMatch = checkMatch(Str(value), sourceText)]

\* handleRowChange, lines 32-41: the row the edit is addressed to.
ChangedRow(node, value, type, sourceText) ==
    CASE type = "structure" -> [node EXCEPT !.depth = StructureDepth(value)]
      [] type = "key" -> [node EXCEPT !.key = value]
      [] OTHER -> [node EXCEPT !.value = Str(value),
                               !.isMatch = checkMatch(Str(value), sourceText)]

\* The documents shown with their edit controls: the active one in the
\* editor, the ones of the comparison list in the focus panel.
Editable(id) ==
    /\ id \in DocIds(documents)
    /\ id = activeDocId \/ id \in Range(compareDocIds)

\* handleRowChange (OntologyEditor lines 28-44, FocusPanel lines 29-45)
\* and handleDocUpdate (App lines 89-96).
handleRowChange(docId, id, value, type) ==
    /\ events < MaxEvents
    /\ Editable(docId)
    /\ LET doc == FindDoc(docId)
           newNodes ==
               [j \in 1..Len(doc.flatNodes) |->
                   IF doc.flatNodes[j].id # id
                   THEN doc.flatNodes[j]
                   ELSE ChangedRow(doc.flatNodes[j], value, type,
                                   doc.sourceText)]
       IN  /\ id \in {doc.flatNodes[j].id : j \in 1..Len(doc.flatNodes)}
           /\ documents' =
                  [k \in 1..Len(documents) |->
                      IF documents[k].id = docId
                      THEN [documents[k] EXCEPT !.flatNodes = newNodes]
                      ELSE documents[k]]
    /\ events' = events + 1
    /\ UNCHANGED <<activeDocId, compareDocIds, uploads, alerts>>
    /\ UNCHANGED <<transformVars, call, collapsedIds>>

\* Faulty variant: the rows keep the isMatch they had.
SourceUpdated_NoRescan(doc, newText) == [doc EXCEPT !.sourceText = newText]

\* handleSourceUpdate, lines 102-111: the document with the new text.
SourceUpdated(doc, newText) ==
    [doc EXCEPT !.sourceText = newText,
                !.flatNodes = MatchAll(doc.flatNodes, newText)]

\* handleSourceUpdate, lines 98-113, called by the editor of the document
\* docId (at once, or after the text of a dropped file has been read).
handleSourceUpdate(docId, newText) ==
    /\ events < MaxEvents
    /\ docId \in DocIds(documents)
    /\ documents' =
           [k \in 1..Len(documents) |->
               IF documents[k].id # docId
               THEN documents[k]
               ELSE SourceUpdated(documents[k], newText)]
    /\ events' = events + 1
    /\ UNCHANGED <<activeDocId, compareDocIds, uploads, alerts>>
    /\ UNCHANGED <<transformVars, call, collapsedIds>>

\* The strings typed into the structure, key and value fields.
StructureInputs ==
    {"", "a#", "##a"} \cup {getHashTags(d) : d \in 0..MaxRowDepth}

KeyInputs == {"a", "c"}

ValueInputs == {"", " ", "A", " a "}

\* The texts a source is replaced with.
SourceInputs == {"", "a", "A a"}

EditInputs(type) ==
    CASE type = "structure" -> StructureInputs
      [] type = "key" -> KeyInputs
      [] OTHER -> ValueInputs

EditTypes == {"structure", "key", "value"}

RowIds == 1..MaxNodes

InitApp ==
    /\ TransformIdle
    /\ NothingLoaded
    /\ call = NoCall
    /\ NothingCollapsed

Upload ==
    \/ \E files \in FileLists : handleUpload_Begin(files)
    \/ \E u \in 1..MaxInFlight : handleUpload_End(u)

Select == \E id \in DocIds(documents) : onSelect(id)

Remove == \E id \in DocIds(documents) : onRemove(id)

\* One input of each kind, for sessions that mix edits with uploads,
\* selections and removals.
SampleInput(type) ==
    CASE type = "structure" -> "##"
      [] type = "key" -> "c"
      [] OTHER -> " a "

EditRow ==
    \E docId \in DocIds(documents), id \in RowIds, type \in EditTypes :
        handleRowChange(docId, id, SampleInput(type), type)

ReplaceSource ==
    \E docId \in DocIds(documents) : handleSourceUpdate(docId, "a")

\* The Add Tree menu, lines 254-257: one entry per loaded document that is
\* not in the comparison list.
AddTree ==
    \E docId \in DocIds(documents) \ Range(compareDocIds) :
        addToComparison(docId)

\* The comparison grid, lines 274-305: a column per id of the list that a
\* loaded document has, with its remove button.
RemoveTree ==
    \E docId \in Range(compareDocIds) \cap DocIds(documents) :
        removeFromComparison(docId)

\* The move buttons of a column, lines 288-296; the left one is disabled in
\* the first column and the right one in the last.
MoveTree ==
    \E index \in 1..Len(compareDocIds), direction \in {"left", "right"} :
        /\ compareDocIds[index] \in DocIds(documents)
        /\ direction = "left" => index # 1
        /\ direction = "right" => index # Len(compareDocIds)
        /\ moveTree(index, direction)

NextApp ==
    \/ Upload
    \/ Select
    \/ Remove
    \/ EditRow
    \/ ReplaceSource
    \/ AddTree
    \/ RemoveTree
    \/ MoveTree
    \/ onCompareClick

SpecApp == InitApp /\ [][NextApp]_vars

\* The first upload of a session has ended and left documents: the state
\* handleUpload_End gives from the initial state.
InitEdit ==
    /\ TransformIdle
    /\ call = NoCall
    /\ NothingCollapsed
    /\ \E files \in FileLists :
           \E newDocs \in ReadFiles(SelectSeq(files, IsJsonFile),
                                    SelectSeq(files, IsTextFile),
                                    1, <<>>, {}) :
               /\ Len(newDocs) > 0
               /\ documents = newDocs
               /\ activeDocId = newDocs[1].id
               /\ compareDocIds = <<newDocs[1].id>>
               /\ alerts = Alerts(SelectSeq(files, IsJsonFile))
    /\ uploads = <<>>
    /\ events = 1

EditAnyRow ==
    \E docId \in DocIds(documents), id \in RowIds, type \in EditTypes :
        \E value \in EditInputs(type) :
            handleRowChange(docId, id, value, type)

ReplaceAnySource ==
    \E docId \in DocIds(documents), newText \in SourceInputs :
        handleSourceUpdate(docId, newText)

NextEdit == Select \/ EditAnyRow \/ ReplaceAnySource

\* The editing of the documents of one upload.
SpecEdit == InitEdit /\ [][NextEdit]_vars

\* --------------------------------------------------- the hierarchy views

\* TopicTree.tsx, lines 18-19: the row at position index (from 1) is drawn
\* as a container.
isContainer(rows, index) ==
    \/ rows[index].value = EmptyMarker
    \/ /\ index + 1 <= Len(rows)
       /\ rows[index + 1].depth > rows[index].depth

\* Faulty variant: a row as deep as the collapsed one is skipped too.
Skipped_Siblings(node, hiddenUntilDepth) ==
    hiddenUntilDepth # -1 /\ node.depth >= hiddenUntilDepth

\* The collapsible TopicTree, lines 38-46: the row is passed over.
Skipped(node, hiddenUntilDepth) ==
    hiddenUntilDepth # -1 /\ node.depth > hiddenUntilDepth

RECURSIVE VisibleFrom(_, _, _, _, _)

\* The loop of visibleNodes, lines 34-53, from row k on.  The rows pushed
\* are the row objects of nodes themselves: they are given by position.
VisibleFrom(rows, collapsed, k, hiddenUntilDepth, res) ==
    IF k > Len(rows) THEN res
    ELSE IF Skipped(rows[k], hiddenUntilDepth)
         THEN VisibleFrom(rows, collapsed, k + 1, hiddenUntilDepth, res)
         ELSE VisibleFrom(rows, collapsed, k + 1,
                  IF rows[k].id \in collapsed THEN rows[k].depth ELSE -1,
                  Append(res, k))

\* The collapsible TopicTree, lines 30-55.
visibleNodes(rows, collapsed) == VisibleFrom(rows, collapsed, 1, -1, <<>>)

\* nodes.findIndex(n => n.id === id), line 66: the first row with the id.
findIndex(rows, id) ==
    LET hit == {j \in 1..Len(rows) : rows[j].id = id}
    IN  CHOOSE j \in hit : \A m \in hit : j <= m

\* The collapsible TopicTree, lines 66-67: the visible row at position p
\* is drawn as a container.
isContainerVisible(rows, p) ==
    LET originalIndex == findIndex(rows, rows[p].id)
    IN  \/ rows[p].value = EmptyMarker
        \/ /\ originalIndex + 1 <= Len(rows)
           /\ rows[originalIndex + 1].depth > rows[p].depth

\* Rows as the view can be handed them: ids as drawn, values empty or not,
\* depths as typed into the structure column.
TreeValues == {Str(""), Str("a")}

IsTreeRows(rows) ==
    \E n \in 1..MaxRows :
        /\ rows \in [1..n -> [id : 1..n, key : {"a"}, value : TreeValues,
                              depth : 0..MaxRowDepth, isMatch : {"unset"}]]
        /\ [r \in 1..n |-> rows[r].id] \in IdStreams(n)

\* The view is mounted on the rows of a document; no row is collapsed.
InitTree ==
    /\ json = NoJson
    /\ IsTreeRows(nodes)
    /\ pc = "tree"
    /\ NotStarted
    /\ NothingLoaded
    /\ call = NoCall
    /\ NothingCollapsed

\* toggleCollapse, lines 16-25.
toggleCollapse(id) ==
    /\ collapsedIds' = IF id \in collapsedIds
                       THEN collapsedIds \ {id}
                       ELSE collapsedIds \cup {id}
    /\ UNCHANGED <<transformVars, appVars, call>>

\* The onClick of a visible row: only a row drawn as a container toggles.
ToggleClick ==
    /\ pc = "tree"
    /\ LET vis == visibleNodes(nodes, collapsedIds)
       IN  \E k \in 1..Len(vis) :
               /\ isContainerVisible(nodes, vis[k])
               /\ toggleCollapse(nodes[vis[k]].id)

\* The rows are a prop of the view: a structure edit in the focus panel
\* (its handleRowChange, with a token as getHashTags writes it) hands the
\* view the rows with new depths; collapsedIds stays as it is.
RowsEdited ==
    /\ pc = "tree"
    /\ \E r \in 1..Len(nodes), d \in 0..MaxRowDepth :
           nodes' = [j \in 1..Len(nodes) |->
                        IF nodes[j].id # nodes[r].id
                        THEN nodes[j]
                        ELSE ChangedRow(nodes[j], getHashTags(d),
                                        "structure", "")]
    /\ UNCHANGED <<json, pc, i, stack, heap, attached, result>>
    /\ UNCHANGED <<appVars, call, collapsedIds>>

NextTree == ToggleClick \/ RowsEdited

SpecTree == InitTree /\ [][NextTree]_vars

\* Sidebar.generateAnalysisData, line 79: the type the structure report
\* gives a row.
ReportType(n) == IF n.value = EmptyMarker THEN "Container" ELSE "Leaf"

\* Sidebar.generateAnalysisData, lines 73-81: the structure report, one
\* entry per loaded document.
Structures(docs) ==
    [k \in 1..Len(docs) |->
        [docName |-> docs[k].name,
         nodes |-> [j \in 1..Len(docs[k].flatNodes) |->
                       [key |-> docs[k].flatNodes[j].key,
                        depth |-> docs[k].flatNodes[j].depth,
                        structure |-> getHashTags(docs[k].flatNodes[j].depth),
                        type |-> ReportType(docs[k].flatNodes[j])]]]]

\* ------------------------------------------------------------------- claims

\* The rows as (key, value, depth) triples: ids are fresh on every call.
KVD(rows) ==
    [j \in 1..Len(rows) |-> <<rows[j].key, rows[j].value, rows[j].depth>>]

IsScalar(x) == x.t \in {"str", "num", "bool", "null"}

\* An object whose values are all scalars or null ({} included).
IsScalarObject(x) ==
    x.t = "obj" /\ \A j \in 1..Len(x.v) : IsScalar(x.v[j].v)

RECURSIVE IsObjectTree(_)

\* Non-empty objects nested to any depth with scalar leaves, no arrays.
IsObjectTree(x) ==
    /\ x.t = "obj"
    /\ Len(x.v) > 0
    /\ \A j \in 1..Len(x.v) : IsScalar(x.v[j].v) \/ IsObjectTree(x.v[j].v)

\* C1: for every object whose values are all scalars or null (the empty
\* object included), nestJson(flattenJson(obj)) equals obj.
C1_ScalarObjectRoundTrip ==
    (pc = "done" /\ IsScalarObject(json)) => result = json

\* C1 witness: {"a": "", "b": null} has gone through both functions.
C1_Witness ==
    /\ pc = "done"
    /\ json = Obj(<<Entry("a", Str("")), Entry("b", Null)>>)
    /\ result = json

\* C2: every JSON value built only from non-empty objects with scalar leaves
\* round-trips through flattenJson and nestJson, and {"a": {"b": "x"}, "c": 1}
\* flattens to exactly the rows (a, '', 0), (b, "x", 1), (c, 1, 0).
C2_ObjectTreeRoundTrip ==
    /\ (pc = "done" /\ IsObjectTree(json)) => result = json
    /\ (pc = "nest" /\ json = ScenarioDoc) =>
           KVD(nodes) = << <<"a", EmptyMarker, 0>>,
                           <<"b", Str("x"), 1>>,
                           <<"c", Num(1), 0>> >>

\* C2 witness: the scenario document was flattened and nested back.
C2_Witness ==
    /\ pc = "done"
    /\ json = ScenarioDoc
    /\ Len(nodes) = 3
    /\ result = ScenarioDoc

\* The rows before row r (1-based) that are strictly shallower than row r.
Shallower(r) == {j \in 1..(r - 1) : nodes[j].depth < nodes[r].depth}

\* The greatest member of a non-empty set of row numbers.
Last(S) == CHOOSE j \in S : \A m \in S : m <= j

\* C3: nestJson attaches each row to the object created for the nearest
\* preceding row of strictly smaller depth, or to the root object when there
\* is none, whatever the depth sequence (gaps, first row deeper than 0).
C3_NearestShallowerParent ==
    pc \in {"loop", "done"} =>
        \A r \in 1..Len(attached) :
            attached[r].parent =
                IF Shallower(r) = {}
                THEN RootAddr
                ELSE attached[Last(Shallower(r))].made

\* C3 witness: the first row is deeper than 0, a later row jumps two levels
\* and was attached to the object made for the row before it.
C3_Witness ==
    /\ pc = "done"
    /\ Len(nodes) = 3
    /\ nodes[1].depth = 1
    /\ nodes[2].depth = 0
    /\ nodes[3].depth = 2
    /\ attached[1].parent = RootAddr
    /\ attached[3].parent = attached[2].made
    /\ attached[2].made # RootAddr

\* The property a plain object holds under key, or NoJson when it has none.
PropertyOf(object, key) ==
    IF \E j \in 1..Len(object.v) : object.v[j].k = key
    THEN (CHOOSE e \in {object.v[j] : j \in 1..Len(object.v)} : e.k = key).v
    ELSE NoJson

\* C4: a row immediately followed by a deeper row becomes an object container
\* under its key whatever its own value: a new empty object, not the value,
\* is stored under the key, and the deeper rows that follow go inside it.
C4_DeeperNextMakesContainer ==
    pc \in {"loop", "done"} =>
        \A r \in 1..Len(attached) :
            (r < Len(nodes) /\ nodes[r + 1].depth > nodes[r].depth) =>
                /\ attached[r].made # 0
                /\ (r < Len(attached)) => attached[r + 1].parent = attached[r].made
                /\ (r = Len(attached)) =>
                       /\ PropertyOf(heap[attached[r].parent], nodes[r].key)
                              = Ref(attached[r].made)
                       /\ heap[attached[r].made] = Obj(<<>>)

\* C4 witness: row (a, "x", 0) followed by (b, "x", 1) came out as
\* {"a": {"b": "x"}}.
C4_Witness ==
    /\ pc = "done"
    /\ KVD(nodes) = << <<"a", Str("x"), 0>>, <<"b", Str("x"), 1>> >>
    /\ result = Obj(<<Entry("a", Obj(<<Entry("b", Str("x"))>>))>>)

\* C5: for every row sequence with depths >= 0 nestJson runs to its return
\* without error and returns an object; at every step of the run the stack
\* still holds the sentinel root entry; the empty sequence yields {}.
C5_NestTotal ==
    /\ pc = "loop" =>
           /\ Len(stack) >= 1
           /\ stack[1].obj = RootAddr
           /\ i <= Len(nodes)
    /\ pc \in {"nest", "loop"} => ENABLED Nest
    /\ pc = "done" => result.t = "obj"
    /\ (pc = "done" /\ nodes = <<>>) => result = Obj(<<>>)

\* C5 witness: a malformed depth sequence (2, 0, 2) was nested to the end,
\* with entries popped on the way.
C5_Witness ==
    /\ pc = "done"
    /\ Len(nodes) = 3
    /\ nodes[1].depth = 2
    /\ nodes[2].depth = 0
    /\ nodes[3].depth = 2
    /\ result.t = "obj"

\* The keys "[0]", "[1]", ... written out.
BracketKeys == <<"[0]", "[1]", "[2]", "[3]", "[4]", "[5]", "[6]", "[7]">>

\* A top-level array of non-null scalars.
IsScalarArray(x) ==
    x.t = "arr" /\ \A j \in 1..Len(x.v) : x.v[j].t \in {"str", "num", "bool"}

\* C6: a top-level array of non-null scalars [e0, ..., en-1] flattens to the
\* rows ("[i]", ei, 0) in index order, and nestJson of those rows is the
\* object {"[0]": e0, ..., "[n-1]": en-1}, not an array.
C6_ScalarArrayBecomesObject ==
    IsScalarArray(json) =>
        /\ pc = "nest" =>
               KVD(nodes) = [j \in 1..Len(json.v) |->
                                <<BracketKeys[j], json.v[j], 0>>]
        /\ pc = "done" =>
               result = Obj([j \in 1..Len(json.v) |->
                                Entry(BracketKeys[j], json.v[j])])

\* C6 witness: ["x", 1] was flattened and nested into an object.
C6_Witness ==
    /\ pc = "done"
    /\ json = Arr(<<Str("x"), Num(1)>>)
    /\ result = Obj(<<Entry("[0]", Str("x")), Entry("[1]", Num(1))>>)

\* A stream of pairwise distinct ids, for calls whose ids are not looked at.
DistinctIds == [j \in 1..(MaxNodes + 1) |-> j]

RECURSIVE Concat(_)

\* The concatenation of a sequence of sequences.
Concat(seqs) ==
    IF seqs = <<>> THEN <<>> ELSE Head(seqs) \o Concat(Tail(seqs))

RECURSIVE Containers(_, _)

\* Every object or array inside x (x included, at depth d), with the depth
\* flattenJson is called on it.
Containers(x, d) ==
    IF x.t = "obj"
    THEN {<<x, d>>} \cup UNION {Containers(x.v[j].v, d + 1) : j \in 1..Len(x.v)}
    ELSE IF x.t = "arr"
    THEN {<<x, d>>} \cup UNION {Containers(x.v[j], d + 1) : j \in 1..Len(x.v)}
    ELSE {}

\* The rows the claim gives a key or element: a container row followed by the
\* child's rows one level deeper, or one leaf row carrying the value itself.
RowsFor(key, value, d, asContainer) ==
    IF asContainer
    THEN <<<<key, EmptyMarker, d>>>> \o KVD(flattenJson(value, d + 1, DistinctIds))
    ELSE <<<<key, value, d>>>>

\* Object rows as C7 states them: container iff object or non-empty array.
ObjectRowsClaimed(x, d) ==
    Concat([j \in 1..Len(x.v) |->
        RowsFor(x.v[j].k, x.v[j].v, d,
                x.v[j].v.t = "obj" \/ (x.v[j].v.t = "arr" /\ Len(x.v[j].v.v) > 0))])

\* Object rows as amended: container iff object or array, empty or not.
ObjectRowsAmended(x, d) ==
    Concat([j \in 1..Len(x.v) |->
        RowsFor(x.v[j].k, x.v[j].v, d, x.v[j].v.t \in {"obj", "arr"})])

\* Array rows as C8 states them: container iff the element is an object or
\* an array; a string, number, boolean or null element is a leaf.
ArrayRowsClaimed(x, d) ==
    Concat([j \in 1..Len(x.v) |->
        RowsFor(BracketKeys[j], x.v[j], d, x.v[j].t \in {"obj", "arr"})])

\* C7 as stated: for each key of an object flattenJson emits a container row
\* and the child's rows when the value is an object or a non-empty array,
\* and otherwise one leaf row carrying the value itself.
C7_ObjectRowsAsStated ==
    pc = "nest" =>
        /\ json.t = "obj" => KVD(nodes) = ObjectRowsClaimed(json, 0)
        /\ \A c \in Containers(json, 0) :
               c[1].t = "obj" =>
                   KVD(flattenJson(c[1], c[2], DistinctIds))
                       = ObjectRowsClaimed(c[1], c[2])

\* C7 amended: for each key of an object flattenJson emits a container row
\* (key, '', depth) followed by flatten(child, depth + 1) when the value is
\* an object or an array, empty or not, and otherwise one leaf row
\* (key, value, depth) carrying the value itself.
C7_ObjectRows ==
    pc = "nest" =>
        /\ json.t = "obj" => KVD(nodes) = ObjectRowsAmended(json, 0)
        /\ \A c \in Containers(json, 0) :
               c[1].t = "obj" =>
                   KVD(flattenJson(c[1], c[2], DistinctIds))
                       = ObjectRowsAmended(c[1], c[2])

\* C7 witness: {"a": [], "b": null} was flattened: the empty array gave a
\* container row, null a leaf row.
C7_Witness ==
    /\ pc = "nest"
    /\ json = Obj(<<Entry("a", Arr(<<>>)), Entry("b", Null)>>)
    /\ KVD(nodes) = << <<"a", EmptyMarker, 0>>, <<"b", Null, 0>> >>

\* C8: for each element at index i of an array flattenJson uses the key "[i]"
\* and emits a container row and the element's rows one level deeper when
\* the element is an object or an array, and otherwise (string, number,
\* boolean or null) one leaf row whose value is the element itself.
C8_ArrayRowsAsStated ==
    pc = "nest" =>
        /\ json.t = "arr" => KVD(nodes) = ArrayRowsClaimed(json, 0)
        /\ \A c \in Containers(json, 0) :
               c[1].t = "arr" =>
                   KVD(flattenJson(c[1], c[2], DistinctIds))
                       = ArrayRowsClaimed(c[1], c[2])

\* The children of a JSON value as (key, val) pairs, in enumeration order for
\* an object and by index for an array; a scalar or null has none.
ChildrenOf(x) ==
    IF x.t = "obj"
    THEN [j \in 1..Len(x.v) |-> [key |-> x.v[j].k, val |-> x.v[j].v]]
    ELSE IF x.t = "arr"
    THEN [j \in 1..Len(x.v) |-> [key |-> BracketKeys[j], val |-> x.v[j]]]
    ELSE <<>>

RECURSIVE PathsOf(_)

\* The tree positions below x: non-empty sequences of child numbers.
PathsOf(x) ==
    UNION {{<<j>>} \cup {<<j>> \o p : p \in PathsOf(ChildrenOf(x)[j].val)} :
           j \in 1..Len(ChildrenOf(x))}

RECURSIVE ChildAt(_, _)

\* The (key, val) pair at position p below x.
ChildAt(x, p) ==
    IF Len(p) = 1
    THEN ChildrenOf(x)[p[1]]
    ELSE ChildAt(ChildrenOf(x)[p[1]].val, Tail(p))

\* p is a proper prefix of q: q lies in the subtree of p.
IsAncestor(p, q) ==
    Len(p) < Len(q) /\ \A m \in 1..Len(p) : p[m] = q[m]

\* Pre-order: p comes before q when p is an ancestor of q, or when at the
\* first level they part p takes the earlier child.
Before(p, q) ==
    \/ IsAncestor(p, q)
    \/ \E m \in 1..Len(p) :
           /\ m <= Len(q)
           /\ \A n \in 1..(m - 1) : p[n] = q[n]
           /\ p[m] < q[m]

\* The place of each position in the pre-order traversal of x (from 1).
PreOrderRank(x) ==
    LET P == PathsOf(x)
    IN  [p \in P |-> Cardinality({q \in P : Before(q, p)}) + 1]

\* C9: the rows of flattenJson are the pre-order traversal of the input
\* (object keys in enumeration order, array elements by index): there is one
\* row per tree position, in pre-order, so the rows of a key's subtree are
\* contiguous, begin with the key's own row and end before the next key's.
C9_PreOrder ==
    pc = "nest" =>
        LET P == PathsOf(json)
            rank == PreOrderRank(json)
        IN  /\ Len(nodes) = Cardinality(P)
            /\ \A p \in P :
                   /\ nodes[rank[p]].key = ChildAt(json, p).key
                   /\ nodes[rank[p]].depth = Len(p) - 1
            /\ \A p \in P :
                   \A q \in P :
                       IsAncestor(p, q) <=>
                           /\ rank[p] < rank[q]
                           /\ \A r \in (rank[p] + 1)..rank[q] :
                                  nodes[r].depth > nodes[rank[p]].depth

\* C9 witness: in the scenario document the subtree of "a" (rows 1-2) was
\* emitted whole before the row of "c".
C9_Witness ==
    /\ pc = "nest"
    /\ json = ScenarioDoc
    /\ nodes[1].key = "a"
    /\ nodes[2].key = "b"
    /\ nodes[3].key = "c"

\* C10: the rows of flattenJson have depths >= 0, the first row has depth 0,
\* no row is more than one level deeper than the row before it, and a row
\* is deeper than the row before it only when that row carries the
\* empty-marker.
C10_DepthsWellFormed ==
    pc = "nest" =>
        /\ \A j \in 1..Len(nodes) : nodes[j].depth >= 0
        /\ Len(nodes) > 0 => nodes[1].depth = 0
        /\ \A j \in 2..Len(nodes) :
               /\ nodes[j].depth <= nodes[j - 1].depth + 1
               /\ nodes[j].depth > nodes[j - 1].depth =>
                      nodes[j - 1].value = EmptyMarker

\* C10 witness: an input nested three deep gave rows of depths 0, 1, 2.
C10_Witness ==
    /\ pc = "nest"
    /\ Len(nodes) = 3
    /\ nodes[1].depth = 0
    /\ nodes[2].depth = 1
    /\ nodes[3].depth = 2
    /\ nodes[2].value = EmptyMarker

\* ------------------------------------------------------ claims: checkMatch

\* Every character of s is white space (the empty string included).
IsBlank(s) == \A k \in 1..Len(s) : SubSeq(s, k, k) \in {" ", "\t", "\n"}

\* C11: checkMatch(value, source) is true for every source text, the empty
\* one included, whenever value is not a string (null, any number including
\* 0, any boolean) or is a string that is empty or only white space.
C11_NonStringOrBlankMatches ==
    (call.returned /\ (call.value.t # "str" \/ IsBlank(call.value.v)))
        => call.ret

C11_Witness ==
    /\ call.returned
    /\ call.value = Str(" \n")
    /\ call.source = ""
    /\ call.ret

\* s without its leading and trailing white space, for s not blank.
TrimmedForm(s) ==
    LET inked == {k \in 1..Len(s) : SubSeq(s, k, k) \notin {" ", "\t", "\n"}}
        first == CHOOSE k \in inked : \A m \in inked : k <= m
        last == CHOOSE k \in inked : \A m \in inked : m <= k
    IN  SubSeq(s, first, last)

\* src is some text, then t character for character, then some text.
OccursIn(t, src) ==
    \E before, after \in 0..Len(src) :
        /\ before + Len(t) + after = Len(src)
        /\ src = SubSeq(src, 1, before) \o t
                    \o SubSeq(src, Len(src) - after + 1, Len(src))

\* C12: for a string value whose trimmed form t is non-empty, checkMatch
\* is true exactly when t occurs in the source as a contiguous substring,
\* case-sensitively, with inner white space kept and the source untouched.
C12_TrimmedSubstring ==
    (call.returned /\ call.value.t = "str" /\ ~IsBlank(call.value.v))
        => (call.ret <=> OccursIn(TrimmedForm(call.value.v), call.source))

C12_Witness ==
    /\ call.returned
    /\ call.value = Str(" a ")
    /\ call.source = "Aa "
    /\ call.ret

\* ----------------------------------------------------------- claims: edits

\* The number of '#' characters s starts with.
HashCount(s) ==
    CHOOSE n \in 0..Len(s) :
        /\ \A k \in 1..n : SubSeq(s, k, k) = "#"
        /\ n < Len(s) => SubSeq(s, n + 1, n + 1) # "#"

\* The position of the document an edit or a source replacement addressed
\* to docId reads: the first one carrying that id.
FirstWithId(docId) ==
    CHOOSE k \in DOMAIN documents :
        /\ documents[k].id = docId
        /\ \A m \in 1..(k - 1) : documents[m].id # docId

\* C13: a structure edit with input s sets the depth of the row it is
\* addressed to to max(0, n - 1), n being the number of '#' characters s
\* starts with ("###" gives 2, "#" gives 0, "" or no leading '#' gives 0);
\* the depth is never negative.
C13_StructureEditDepth ==
    [][\A docId \in DocIds(documents), id \in RowIds, s \in StructureInputs :
           handleRowChange(docId, id, s, "structure") =>
               LET after == documents'[FirstWithId(docId)].flatNodes
                   n == HashCount(s)
               IN  \A j \in 1..Len(after) :
                       after[j].id = id =>
                           /\ after[j].depth = IF n - 1 > 0 THEN n - 1 ELSE 0
                           /\ after[j].depth >= 0]_vars

\* C13 witness: a row was given depth 2; uploaded rows here have depth 0, so
\* it was set by the structure edit "###".
C13_Witness ==
    \E k \in DOMAIN documents :
        \E j \in DOMAIN documents[k].flatNodes :
            documents[k].flatNodes[j].depth = 2

\* C14: an edit addressed to row id r gives a sequence of the same length
\* with the same ids in the same order; every row whose id is not r is
\* unchanged, and a row with id r changes only in the edited field (depth;
\* key; value and isMatch), so depth and key edits keep isMatch.
C14_EditFrame ==
    [][\A docId \in DocIds(documents), r \in RowIds, type \in EditTypes :
           \A s \in EditInputs(type) :
               handleRowChange(docId, r, s, type) =>
                   LET before == documents[FirstWithId(docId)].flatNodes
                       after == documents'[FirstWithId(docId)].flatNodes
                   IN  /\ Len(after) = Len(before)
                       /\ \A j \in 1..Len(before) :
                              /\ after[j].id = before[j].id
                              /\ before[j].id # r => after[j] = before[j]
                              /\ type # "structure" =>
                                     after[j].depth = before[j].depth
                              /\ type # "key" => after[j].key = before[j].key
                              /\ type # "value" =>
                                     /\ after[j].value = before[j].value
                                     /\ after[j].isMatch = before[j].isMatch]_vars

\* C14 witness: the document made from {"a": "a", "b": 1} and the text
\* "a A", after the key edit "c" on its first row only.
C14_Witness ==
    \E k \in DOMAIN documents :
        /\ documents[k].sourceText = "a A"
        /\ Len(documents[k].flatNodes) = 2
        /\ documents[k].flatNodes[1].key = "c"
        /\ documents[k].flatNodes[1].value = Str("a")
        /\ documents[k].flatNodes[1].isMatch
        /\ documents[k].flatNodes[2].key = "b"

\* C15: a value edit with input s on row r of a document whose source text
\* is T sets r.value to exactly s and r.isMatch to checkMatch(s, T).
C15_ValueEdit ==
    [][\A docId \in DocIds(documents), r \in RowIds, s \in ValueInputs :
           handleRowChange(docId, r, s, "value") =>
               LET T == documents[FirstWithId(docId)].sourceText
                   after == documents'[FirstWithId(docId)].flatNodes
               IN  \A j \in 1..Len(after) :
                       after[j].id = r =>
                           /\ after[j].value = Str(s)
                           /\ after[j].isMatch = checkMatch(Str(s), T)]_vars

\* C15 witness: the value " a " was stored untrimmed in a document whose
\* source text contains "a", and the row is marked as matching.
C15_Witness ==
    \E k \in DOMAIN documents :
        \E j \in DOMAIN documents[k].flatNodes :
            /\ documents[k].sourceText = "a A"
            /\ documents[k].flatNodes[j].value = Str(" a ")
            /\ documents[k].flatNodes[j].isMatch

\* C16: replacing the source text of the documents with id docId by T sets
\* their sourceText to T and every row's isMatch to checkMatch(row.value, T),
\* keeps every row's id, key, value, depth and position, and leaves every
\* other document unchanged.
C16_SourceReplaced ==
    [][\A docId \in DocIds(documents), T \in SourceInputs :
           handleSourceUpdate(docId, T) =>
               /\ Len(documents') = Len(documents)
               /\ \A k \in 1..Len(documents) :
                      IF documents[k].id # docId
                      THEN documents'[k] = documents[k]
                      ELSE LET before == documents[k].flatNodes
                               after == documents'[k].flatNodes
                           IN  /\ documents'[k].sourceText = T
                               /\ documents'[k].id = documents[k].id
                               /\ documents'[k].name = documents[k].name
                               /\ documents'[k].rawJson = documents[k].rawJson
                               /\ Len(after) = Len(before)
                               /\ \A j \in 1..Len(before) :
                                      /\ after[j].id = before[j].id
                                      /\ after[j].key = before[j].key
                                      /\ after[j].value = before[j].value
                                      /\ after[j].depth = before[j].depth
                                      /\ after[j].isMatch =
                                             checkMatch(before[j].value, T)]_vars

\* C16 witness: two documents with different ids; the source of the one made
\* from ["A"] was replaced by "A a", so its row now matches, and the other
\* document still has the text it was uploaded with.
C16_Witness ==
    /\ Len(documents) = 2
    /\ documents[1].id # documents[2].id
    /\ documents[1].sourceText = ""
    /\ documents[1].name = "a"
    /\ documents[2].name = "notes"
    /\ documents[2].sourceText = "A a"
    /\ documents[2].flatNodes[1].isMatch

\* ------------------------------------------------------------- claims: ids

\* C17: in every reachable state all rows of a document have pairwise
\* distinct ids, and no edit changes a row's id or moves it to another row.
C17_RowIdsUnique ==
    /\ [](\A k \in DOMAIN documents :
              \A j, m \in DOMAIN documents[k].flatNodes :
                  j # m => documents[k].flatNodes[j].id
                               # documents[k].flatNodes[m].id)
    /\ [][\A docId \in DocIds(documents), r \in RowIds, type \in EditTypes :
              \A s \in EditInputs(type) :
                  handleRowChange(docId, r, s, type) =>
                      LET before == documents[FirstWithId(docId)].flatNodes
                          after == documents'[FirstWithId(docId)].flatNodes
                      IN  /\ Len(after) = Len(before)
                          /\ \A j \in 1..Len(before) :
                                 after[j].id = before[j].id]_vars

\* ------------------------------------------------- claims: nestJson, again

RECURSIVE ReachableFrom(_, _)

\* The addresses of the objects reachable from the object at addr.
ReachableFrom(h, addr) ==
    {addr} \cup
        UNION {ReachableFrom(h, h[addr].v[j].v.v) :
                   j \in {m \in 1..Len(h[addr].v) : h[addr].v[m].v.t = "ref"}}

\* What row r stored under its key: the container made for it, or its value.
Stored(r) ==
    IF attached[r].made # 0 THEN Ref(attached[r].made) ELSE nodes[r].value

\* Rows r and q were attached to the same parent under the same key.
SameSlot(r, q) ==
    attached[r].parent = attached[q].parent /\ nodes[r].key = nodes[q].key

\* C18: when two rows attach to the same parent under the same key, nestJson
\* returns without error and the output holds under that key only what the
\* later row stored; the earlier row's value or subtree is not in the output.
C18_LaterSiblingOverwrites ==
    pc = "done" =>
        \A r, q \in 1..Len(attached) :
            (r < q /\ SameSlot(r, q)) =>
                LET parent == heap[attached[q].parent]
                    last == CHOOSE p \in q..Len(attached) :
                                /\ SameSlot(q, p)
                                /\ \A o \in (p + 1)..Len(attached) :
                                       ~SameSlot(q, o)
                IN  /\ result.t = "obj"
                    /\ Cardinality({j \in 1..Len(parent.v) :
                                       parent.v[j].k = nodes[q].key}) = 1
                    /\ PropertyOf(parent, nodes[q].key) = Stored(last)
                    /\ attached[r].made # 0 =>
                           attached[r].made \notin ReachableFrom(heap, RootAddr)

\* C18 witness: (a, "x", 0), (b, "x", 1), (a, null, 0) came out as
\* {"a": null}: the object first made for a, and b inside it, are gone.
C18_Witness ==
    /\ pc = "done"
    /\ KVD(nodes) = << <<"a", Str("x"), 0>>, <<"b", Str("x"), 1>>,
                       <<"a", Null, 0>> >>
    /\ result = Obj(<<Entry("a", Null)>>)

\* ---------------------------------------------- claims: flattenJson, again

\* C19: flattenJson of a top-level scalar or null (string, number, boolean,
\* null) returns the empty sequence and raises no error.
C19_TopLevelScalarNoRows ==
    IsScalar(json) =>
        /\ pc = "flatten" => ENABLED Flatten
        /\ pc # "flatten" => nodes = <<>>

C19_Witness ==
    /\ pc = "nest"
    /\ json = Num(1)
    /\ nodes = <<>>

\* ---------------------------------------------------------- claims: upload

\* C20: when a JSON file of an upload fails to parse, no document is made
\* for that file and every document loaded before is left as it was (name,
\* rows, source text, raw JSON).
C20_ParseFailureIsolated ==
    [][\A u \in DOMAIN uploads :
           LET jsonFiles == uploads[u].jsonFiles
               parsing == {k \in 1..Len(jsonFiles) :
                              jsonFiles[k].parsed # ParseError}
           IN  (handleUpload_End(u) /\ parsing # DOMAIN jsonFiles) =>
                   /\ Len(documents') = Len(documents) + Cardinality(parsing)
                   /\ \A k \in 1..Len(documents) : documents'[k] = documents[k]
                   /\ \A k \in (Len(documents) + 1)..Len(documents') :
                          \E f \in parsing :
                              documents'[k].rawJson = jsonFiles[f].parsed]_vars

\* C20 witness: a.json was loaded with its text, then an upload of b.json
\* ended with the alert and the loaded document still there.
C20_Witness ==
    /\ alerts = <<"Error parsing b.json">>
    /\ uploads = <<>>
    /\ events = 2
    /\ Len(documents) = 1
    /\ documents[1].name = "a"
    /\ documents[1].sourceText = "a A"

\* ------------------------------------------------ claims: the core functions

\* The row the rows say row r belongs to: the nearest earlier row of smaller
\* depth, 0 when there is none.
ParentOf(rows, r) ==
    LET S == {j \in 1..(r - 1) : rows[j].depth < rows[r].depth}
    IN  IF S = {} THEN 0 ELSE CHOOSE j \in S : \A m \in S : m <= j

\* entries with key set to x: in place when the key is there, else last.
WithProperty(entries, key, x) ==
    LET hit == {j \in 1..Len(entries) : entries[j].k = key}
    IN  IF hit = {} THEN entries \o <<Entry(key, x)>>
        ELSE [entries EXCEPT ![CHOOSE j \in hit : TRUE] = Entry(key, x)]

RECURSIVE NestedUnder(_, _, _, _)

\* The properties of the object of row p (0: the root), read off the rows
\* from row r on without any stack: a function of the rows alone.
NestedUnder(rows, p, r, entries) ==
    IF r > Len(rows) THEN entries
    ELSE IF ParentOf(rows, r) # p THEN NestedUnder(rows, p, r + 1, entries)
    ELSE NestedUnder(rows, p, r + 1,
             WithProperty(entries, rows[r].key,
                 IF r < Len(rows) /\ rows[r + 1].depth > rows[r].depth
                 THEN Obj(NestedUnder(rows, r, r + 1, <<>>))
                 ELSE rows[r].value))

\* What the match is by C11 and C12, a function of the two arguments.
MatchOf(value, source) ==
    \/ value.t # "str"
    \/ IsBlank(value.v)
    \/ OccursIn(TrimmedForm(value.v), source)

\* C21: flattenJson, nestJson and checkMatch are deterministic and total:
\* each call returns, and what it returns is a function of its arguments;
\* for flattenJson that is the rows by key, value and depth, whatever ids
\* were drawn.
C21_DeterministicTotal ==
    /\ pc = "flatten" => ENABLED Flatten
    /\ (pc = "nest" /\ json # NoJson) =>
           KVD(nodes) = KVD(flattenJson(json, 0, DistinctIds))
    /\ pc \in {"nest", "loop"} => ENABLED Nest
    /\ pc = "done" => result = Obj(NestedUnder(nodes, 0, 1, <<>>))
    /\ (call.fn = "checkMatch" /\ ~call.returned) => ENABLED CheckMatchCall
    /\ call.returned => (call.ret <=> MatchOf(call.value, call.source))

\* C21 witness: a document of two rows was flattened with the same id drawn
\* twice, and nested back.
C21_Witness ==
    /\ pc = "done"
    /\ json = ScenarioDoc
    /\ nodes[1].id = nodes[2].id
    /\ result = json

\* ------------------------------------------------- claims: hierarchy views

\* C22: both hierarchy views draw a row as a container iff its value is
\* the empty marker or the row after it in the full sequence is deeper,
\* also for the rows left visible when others are collapsed.
C22_ContainerByAdjacency ==
    pc = "tree" =>
        /\ \A r \in 1..Len(nodes) :
               isContainer(nodes, r) <=>
                   \/ nodes[r].value = EmptyMarker
                   \/ r < Len(nodes) /\ nodes[r + 1].depth > nodes[r].depth
        /\ LET vis == visibleNodes(nodes, collapsedIds)
           IN  \A k \in 1..Len(vis) :
                   isContainerVisible(nodes, vis[k]) <=>
                       \/ nodes[vis[k]].value = EmptyMarker
                       \/ /\ vis[k] < Len(nodes)
                          /\ nodes[vis[k] + 1].depth > nodes[vis[k]].depth

\* Row r lies in the child run of row c.
InChildRun(rows, c, r) ==
    c < r /\ \A m \in (c + 1)..r : rows[m].depth > rows[c].depth

\* C28: a row is hidden iff it lies in the child run of a row whose id is
\* collapsed, and the visible rows keep their order.
C28_HiddenIffInCollapsedRun ==
    pc = "tree" =>
        LET vis == visibleNodes(nodes, collapsedIds)
        IN  /\ \A r \in 1..Len(nodes) :
                   (\A k \in 1..Len(vis) : vis[k] # r) <=>
                       \E c \in 1..Len(nodes) :
                           /\ nodes[c].id \in collapsedIds
                           /\ InChildRun(nodes, c, r)
            /\ \A k \in 1..(Len(vis) - 1) : vis[k] < vis[k + 1]

\* C28 witness: the first row is collapsed and hides the second, which is
\* collapsed too; the third row ends the run and is shown.
C28_Witness ==
    /\ pc = "tree"
    /\ Len(nodes) = 3
    /\ nodes[1].id # nodes[2].id
    /\ {nodes[1].id, nodes[2].id} \subseteq collapsedIds
    /\ nodes[2].depth > nodes[1].depth
    /\ visibleNodes(nodes, collapsedIds) = <<1, 3>>

\* ---------------------------------------------------- claims: match flags

\* C23: whatever was uploaded, edited and replaced, every row of every
\* loaded document has its isMatch set, to checkMatch of the row's value
\* and the document's current sourceText.
C23_MatchFlagsCurrent ==
    \A k \in 1..Len(documents) :
        \A j \in 1..Len(documents[k].flatNodes) :
            documents[k].flatNodes[j].isMatch =
                checkMatch(documents[k].flatNodes[j].value,
                           documents[k].sourceText)

\* --------------------------------------------- claims: nestJson and arrays

RECURSIVE NoArrayIn(_)

\* No array occurs in x at any level.
NoArrayIn(x) ==
    /\ x.t # "arr"
    /\ x.t = "obj" => \A j \in 1..Len(x.v) : NoArrayIn(x.v[j].v)

\* C24: nestJson never makes an array: root and every container are plain
\* objects, so neither push branch is taken, every row (also one with an
\* index key) is stored as a property under its key, and the result holds
\* no array at any level.
C24_NoArrays ==
    /\ \A a \in 1..Len(heap) : heap[a].t = "obj"
    /\ pc \in {"loop", "done"} =>
           \A r \in 1..Len(attached) :
               \E j \in 1..Len(heap[attached[r].parent].v) :
                   heap[attached[r].parent].v[j].k = nodes[r].key
    /\ pc = "done" => NoArrayIn(result)

\* C24 witness: an array with an element was flattened and nested back; the
\* element is the property "[0]" of an object.
C24_Witness ==
    /\ pc = "done"
    /\ IsArray(json)
    /\ result.t = "obj"
    /\ Len(result.v) >= 1
    /\ result.v[1].k = IndexKey(0)

\* ------------------------------------------------ claims: structure report

\* C25: in every document state the structure report gives a row the type
\* 'Container' exactly when the hierarchy view draws it as a container:
\* its value is the empty marker or the next row is deeper.
C25_ReportAgreesWithView ==
    \A k \in 1..Len(documents) :
        \A j \in 1..Len(documents[k].flatNodes) :
            Structures(documents)[k].nodes[j].type = "Container"
                <=> isContainer(documents[k].flatNodes, j)

\* --------------------------------------------- claims: empty containers

\* The keys leading from the root of x to position p.
KeysTo(x, p) == [m \in 1..Len(p) |-> ChildAt(x, SubSeq(p, 1, m)).key]

RECURSIVE OutputAt(_, _)

\* What the nested output x holds at the end of the key path ks, NoJson
\* when the path leads nowhere.
OutputAt(x, ks) ==
    IF ks = <<>> THEN x
    ELSE IF x.t # "obj" THEN NoJson
    ELSE OutputAt(PropertyOf(x, Head(ks)), Tail(ks))

\* C26: a row that carries the empty-marker and is not followed by a deeper
\* row makes no container: nestJson stores the leaf value "" under its key.
\* So an empty object or empty array under a key comes back from
\* flattenJson then nestJson as the empty string.
C26_EmptyMarkerLeaf ==
    /\ pc \in {"loop", "done"} =>
           \A r \in 1..Len(attached) :
               (/\ nodes[r].value = EmptyMarker
                /\ ~(r < Len(nodes) /\ nodes[r + 1].depth > nodes[r].depth))
               => /\ attached[r].made = 0
                  /\ (\A q \in (r + 1)..Len(attached) : ~SameSlot(r, q)) =>
                         PropertyOf(heap[attached[r].parent], nodes[r].key)
                             = Str("")
    /\ (pc = "done" /\ json # NoJson) =>
           \A p \in PathsOf(json) :
               (/\ ChildAt(json, p).val.t \in {"obj", "arr"}
                /\ Len(ChildAt(json, p).val.v) = 0)
               => OutputAt(result, KeysTo(json, p)) = Str("")

\* C26 witness: an object holding an empty array under its first key was
\* flattened and nested back; the key now holds the empty string.
C26_Witness ==
    /\ pc = "done"
    /\ json.t = "obj"
    /\ Len(json.v) >= 1
    /\ json.v[1].v = Arr(<<>>)
    /\ result.v[1] = Entry(json.v[1].k, Str(""))

\* ------------------------------------------------ claims: structure tokens

\* C27: typing the token getHashTags(d) into the structure column gives the
\* row depth d, for every d >= 0; typing the token a row displays, the one
\* for its own depth, leaves the row as it is.
C27_TokenGivesDepth ==
    [][\A docId \in DocIds(documents), id \in RowIds, d \in 0..MaxRowDepth :
           handleRowChange(docId, id, getHashTags(d), "structure") =>
               LET before == documents[FirstWithId(docId)].flatNodes
                   after == documents'[FirstWithId(docId)].flatNodes
               IN  \A j \in 1..Len(after) :
                       after[j].id = id =>
                           /\ after[j].depth = d
                           /\ before[j].depth = d => after[j] = before[j]]_vars

\* C27 witness: one document holds a row at depth 1 and a row at depth 2,
\* set with the tokens "##" and "###".
C27_Witness ==
    \E k \in DOMAIN documents :
        \E j, m \in DOMAIN documents[k].flatNodes :
            /\ documents[k].flatNodes[j].depth = 1
            /\ documents[k].flatNodes[m].depth = 2

\* ---------------------------------------------- claims: comparison list

\* How often x occurs in seq.
Count(seq, x) == Cardinality({j \in 1..Len(seq) : seq[j] = x})

\* C29: whatever is uploaded, selected, removed, added to or removed from
\* the comparison and moved, the comparison list holds no id twice and only
\* ids of loaded documents, the active id is null or the id of a loaded
\* document, and moving a tree only permutes the comparison list.
C29_ComparisonListSound ==
    /\ [](/\ \A a, b \in 1..Len(compareDocIds) :
                a # b => compareDocIds[a] # compareDocIds[b]
          /\ Range(compareDocIds) \subseteq DocIds(documents)
          /\ activeDocId = 0 \/ activeDocId \in DocIds(documents))
    /\ [][\A index \in 1..Len(compareDocIds), direction \in {"left", "right"} :
              moveTree(index, direction) =>
                  /\ Len(compareDocIds') = Len(compareDocIds)
                  /\ \A x \in Range(compareDocIds) \cup Range(compareDocIds') :
                         Count(compareDocIds', x) = Count(compareDocIds, x)]_vars

\* C29 witness: two documents are loaded and the second stands before the
\* first in the comparison list.
C29_Witness ==
    /\ Len(documents) = 2
    /\ compareDocIds = <<documents[2].id, documents[1].id>>
    /\ documents[1].id # documents[2].id
    /\ activeDocId = documents[1].id

\* C30: when a handleUpload call completes while a document is active, it
\* only appends its documents: the active id and the comparison list stay
\* as they are, whatever was interleaved with its file reads.
C30_UploadOnlyAppends ==
    [][\A u \in 1..MaxInFlight :
           (handleUpload_End(u) /\ activeDocId # 0) =>
               /\ activeDocId' = activeDocId
               /\ compareDocIds' = compareDocIds
               /\ Len(documents') >= Len(documents)
               /\ SubSeq(documents', 1, Len(documents)) = documents]_vars

====
